---- MODULE Spec2Model ----
(***************************************************************************)
(* A model of the cooperative scheduler of dioxus-core                     *)
(* (packages/core/src/scheduler/wait.rs) together with the stack-machine   *)
(* mutation encoding it writes to (packages/core/src.old/mutations.rs).    *)
(*                                                                         *)
(* One action models one whole call of a VirtualDom entry point.  A call   *)
(* that panics leaves `panicked` set and the virtual dom is not used       *)
(* afterwards.                                                             *)
(***************************************************************************)
EXTENDS Integers, Sequences, FiniteSets, TLC

(* ------------------------------ bounds -------------------------------- *)

MaxScopes == 2
MaxTasks == 2
MaxLeaves == 2
MaxCalls == 6

\* reconciler passes over one scope (the mount included), and child keys
MaxPasses == 3
MaxKeys == 2

ScopeIds == 0 .. (MaxScopes - 1)
TaskIds == 0 .. (MaxTasks - 1)
SuspenseIds == 0 .. (MaxLeaves - 1)

(* --------------------------- template nodes --------------------------- *)

NoAttrs == << >>
NoChildren == << >>

\* VText: a text slice (the ElementId cell is filled in by create)
VText(text) ==
    [kind |-> "text", tag |-> "", text |-> text, attrs |-> NoAttrs, children |-> NoChildren]

VElement(tag, attrs, children) ==
    [kind |-> "element", tag |-> tag, text |-> "", attrs |-> attrs, children |-> children]

\* rsx!(in cx, img { src: "{res.message}" })
ImgTemplate == VElement("img", << [name |-> "src", value |-> "x.png"] >>, NoChildren)

\* rsx!(in cx, div { "No doggos for you :(" })
DivTemplate == VElement("div", NoAttrs, << VText("No doggos for you :(") >>)

TemplateNames == {"img", "div"}

TemplateOf(name) == IF name = "img" THEN ImgTemplate ELSE DivTemplate

(* ------------------------------ mutations ----------------------------- *)

Mut(op, id, n, name, value) == [op |-> op, id |-> id, n |-> n, name |-> name, value |-> value]

PushRoot(id) == Mut("push_root", id, 0, "", "")
PopRoot == Mut("pop_root", -1, 0, "", "")
ReplaceWith(id, m) == Mut("replace_with", id, m, "", "")
InsertAfter(id, n) == Mut("insert_after", id, n, "", "")
InsertBefore(id, n) == Mut("insert_before", id, n, "", "")
AppendChildren(n) == Mut("append_children", -1, n, "", "")
CreateTextNode(text, id) == Mut("create_text_node", id, 0, "", text)
CreateElement(tag, id) == Mut("create_element", id, 0, tag, "")
CreatePlaceholder(id) == Mut("create_placeholder", id, 0, "", "")
SetText(text, id) == Mut("set_text", id, 0, "", text)
SetAttribute(name, value, id) == Mut("set_attribute", id, 0, name, value)
Remove(id) == Mut("remove", id, 0, "", "")
RemoveAttribute(name, id) == Mut("remove_attribute", id, 0, name, "")

\* the change of the renderer's stack depth made by one instruction
StackEffect(m) ==
    CASE m.op \in {"push_root", "create_text_node", "create_element", "create_placeholder"} -> 1
      [] m.op = "pop_root" -> -1
      [] m.op \in {"replace_with", "insert_after", "insert_before", "append_children"} -> 0 - m.n
      [] OTHER -> 0

\* the number of stack elements an instruction needs to find: what it pops,
\* and for append_children the parent beneath the n children as well
StackNeed(m) ==
    CASE m.op = "pop_root" -> 1
      [] m.op \in {"replace_with", "insert_after", "insert_before"} -> m.n
      [] m.op = "append_children" -> m.n + 1
      [] OTHER -> 0

RECURSIVE StackValid(_, _)
\* every instruction of muts finds what it needs on a stack that starts at depth
StackValid(muts, depth) ==
    IF muts = << >> THEN TRUE
    ELSE /\ StackNeed(Head(muts)) <= depth
         /\ StackValid(Tail(muts), depth + StackEffect(Head(muts)))

RECURSIVE StackDelta(_)
StackDelta(muts) ==
    IF muts = << >> THEN 0
    ELSE StackEffect(Head(muts)) + StackDelta(Tail(muts))

(* ------------------------ subtree creation ---------------------------- *)

\* set_attribute for every attribute of a freshly created element
AttributeMuts(attrs, id) ==
    [i \in 1 .. Len(attrs) |-> SetAttribute(attrs[i].name, attrs[i].value, id)]

RECURSIVE create(_, _), create_children(_, _)

\* VirtualDom::create: writes the instructions that build `node`, depth
\* first and left to right, taking ElementIds from `next` on.  The created
\* root is left on the renderer's stack; m is the number of roots left.
create(node, next) ==
    IF node.kind = "text"
    THEN [muts |-> << CreateTextNode(node.text, next) >>, next |-> next + 1, m |-> 1]
    ELSE LET kids == create_children(node.children, next + 1)
         IN  [muts |-> << CreateElement(node.tag, next) >>
                         \o AttributeMuts(node.attrs, next)
                         \o kids.muts
                         \o (IF kids.m > 0 THEN << AppendChildren(kids.m) >> ELSE << >>),
              next |-> kids.next,
              m    |-> 1]

create_children(children, next) ==
    IF children = << >>
    THEN [muts |-> << >>, next |-> next, m |-> 0]
    ELSE LET first == create(Head(children), next)
             rest  == create_children(Tail(children), first.next)
         IN  [muts |-> first.muts \o rest.muts, next |-> rest.next, m |-> first.m + rest.m]

(* ------------------------------ reconciler ---------------------------- *)

\* a template node with the key its parent's child list matches it by (0: no key)
Keyed(node, key) ==
    [kind |-> node.kind, tag |-> node.tag, text |-> node.text, attrs |-> node.attrs,
     children |-> node.children, key |-> key]

KeyOf(node) == IF "key" \in DOMAIN node THEN node.key ELSE 0

\* a rendered node: the template node with the ElementId it was given
Rendered(node, id, children) ==
    [kind |-> node.kind, tag |-> node.tag, text |-> node.text, attrs |-> node.attrs,
     children |-> children, key |-> KeyOf(node), id |-> id]

NoTree == Rendered(Keyed(VText(""), 0), -1, << >>) 

RECURSIVE render(_, _), render_children(_, _)

\* the rendered tree create leaves behind: ids in the order create hands them out
render(node, next) ==
    IF node.kind = "text"
    THEN [tree |-> Rendered(node, next, << >>), next |-> next + 1]
    ELSE LET kids == render_children(node.children, next + 1)
         IN  [tree |-> Rendered(node, next, kids.trees), next |-> kids.next]

render_children(children, next) ==
    IF children = << >>
    THEN [trees |-> << >>, next |-> next]
    ELSE LET first == render(Head(children), next)
             rest  == render_children(Tail(children), first.next)
         IN  [trees |-> << first.tree >> \o rest.trees, next |-> rest.next]

SeqToSet(seq) == {seq[i] : i \in 1 .. Len(seq)}

RECURSIVE Concat(_)
Concat(seqs) == IF seqs = << >> THEN << >> ELSE Head(seqs) \o Concat(Tail(seqs))

\* the entries of seq that satisfy Keep, in order
RECURSIVE Filter(_, _)
Filter(seq, keep) ==
    IF seq = << >> THEN << >>
    ELSE (IF Head(seq) \in keep THEN << Head(seq) >> ELSE << >>) \o Filter(Tail(seq), keep)

\* attributes: set what is new or changed, remove what is gone
diff_attributes(old, new, id) ==
    Concat([i \in 1 .. Len(new) |->
               IF new[i] \in SeqToSet(old) THEN << >>
               ELSE << SetAttribute(new[i].name, new[i].value, id) >>])
    \o Concat([i \in 1 .. Len(old) |->
               IF \E j \in 1 .. Len(new) : new[j].name = old[i].name THEN << >>
               ELSE << RemoveAttribute(old[i].name, id) >>])

IndexOfKey(kids, key) == CHOOSE i \in 1 .. Len(kids) : kids[i].key = key

InsertAt(seq, i, x) == SubSeq(seq, 1, i - 1) \o << x >> \o SubSeq(seq, i, Len(seq))
RemoveAt(seq, i) == SubSeq(seq, 1, i - 1) \o SubSeq(seq, i + 1, Len(seq))

\* where freshly pushed nodes go so that they land at position i of cur:
\* before the node now at i, else after the last node, else under the parent
place_at(cur, i, parent, body, m) ==
    IF i <= Len(cur) THEN body \o << InsertBefore(cur[i].id, m) >>
    ELSE IF Len(cur) > 0 THEN body \o << InsertAfter(cur[Len(cur)].id, m) >>
    ELSE << PushRoot(parent) >> \o body \o << AppendChildren(m), PopRoot >>

\* a matched child is created anew instead of being moved
move_child_recreated(cur, j, i, parent) ==
    place_at(RemoveAt(cur, j), i, parent,
             << Remove(cur[j].id), CreateElement(cur[j].tag, cur[j].id) >>, 1)

\* a matched keyed child leaves its old position and is inserted at its new one
move_child(cur, j, i, parent) ==
    place_at(RemoveAt(cur, j), i, parent, << Remove(cur[j].id), PushRoot(cur[j].id) >>, 1)

\* text against text: nothing is written although the text changed
diff_text_silent(old, new) == << >>

\* text against text: set_text is written whether or not the text changed
diff_text_always(old, new) == << SetText(new.text, old.id) >>

\* text against text: one set_text on the old node when the text changed
diff_text(old, new) ==
    IF old.text = new.text THEN << >> ELSE << SetText(new.text, old.id) >>

RECURSIVE diff_node(_, _, _), diff_positional(_, _, _, _), diff_keyed(_, _, _, _, _)

\* reconcile the rendered node old against the template node new
diff_node(old, new, next) ==
    IF old.kind = "text" /\ new.kind = "text"
    THEN [muts |-> diff_text(old, new),
          tree |-> [old EXCEPT !.text = new.text, !.key = KeyOf(new)],
          next |-> next]
    ELSE IF old.kind = "element" /\ new.kind = "element" /\ old.tag = new.tag
    THEN LET keyed == /\ \A i \in 1 .. Len(old.children) : old.children[i].key # 0
                      /\ \A i \in 1 .. Len(new.children) : KeyOf(new.children[i]) # 0
             kids  == IF keyed
                      THEN LET kept == {c \in SeqToSet(old.children) :
                                           \E i \in 1 .. Len(new.children) :
                                               KeyOf(new.children[i]) = c.key}
                               gone == Filter(old.children, SeqToSet(old.children) \ kept)
                               rest == diff_keyed(Filter(old.children, kept), new.children,
                                                  1, old.id, next)
                           IN  [rest EXCEPT !.muts =
                                    [i \in 1 .. Len(gone) |-> Remove(gone[i].id)] \o @]
                      ELSE diff_positional(old.children, new.children, old.id, next)
         IN  [muts |-> diff_attributes(old.attrs, new.attrs, old.id) \o kids.muts,
              tree |-> [old EXCEPT !.attrs = new.attrs, !.children = kids.trees,
                                   !.key = KeyOf(new)],
              next |-> kids.next]
    ELSE LET made == create(new, next)
         IN  [muts |-> made.muts \o << ReplaceWith(old.id, made.m) >>,
              tree |-> render(new, next).tree,
              next |-> made.next]

\* children without keys are matched by position
diff_positional(old, new, parent, next) ==
    IF new = << >>
    THEN [muts |-> [i \in 1 .. Len(old) |-> Remove(old[i].id)], trees |-> << >>, next |-> next]
    ELSE IF old = << >>
    THEN LET made == create_children(new, next)
         IN  [muts |-> << PushRoot(parent) >> \o made.muts \o << AppendChildren(made.m), PopRoot >>,
              trees |-> render_children(new, next).trees,
              next |-> made.next]
    ELSE LET first == diff_node(Head(old), Head(new), next)
             rest  == IF Tail(old) = << >> /\ Tail(new) # << >>
                      THEN LET made == create_children(Tail(new), first.next)
                           IN  [muts |-> made.muts \o << InsertAfter(first.tree.id, made.m) >>,
                                trees |-> render_children(Tail(new), first.next).trees,
                                next |-> made.next]
                      ELSE diff_positional(Tail(old), Tail(new), parent, first.next)
         IN  [muts |-> first.muts \o rest.muts,
              trees |-> << first.tree >> \o rest.trees,
              next |-> rest.next]

\* keyed children: cur is the child list as the renderer has it so far;
\* positions before i already hold the new children
diff_keyed(cur, new, i, parent, next) ==
    IF i > Len(new)
    THEN [muts |-> << >>, trees |-> cur, next |-> next]
    ELSE LET key == KeyOf(new[i]) IN
         IF \E j \in 1 .. Len(cur) : cur[j].key = key
         THEN LET j     == IndexOfKey(cur, key)
                  moved == IF j = i THEN << >> ELSE move_child(cur, j, i, parent)
                  same  == diff_node(cur[j], new[i], next)
                  cur2  == InsertAt(RemoveAt(cur, j), i, same.tree)
                  rest  == diff_keyed(cur2, new, i + 1, parent, same.next)
              IN  [muts |-> moved \o same.muts \o rest.muts, trees |-> rest.trees,
                   next |-> rest.next]
         ELSE LET made == create(new[i], next)
                  cur2 == InsertAt(cur, i, render(new[i], next).tree)
                  rest == diff_keyed(cur2, new, i + 1, parent, made.next)
              IN  [muts |-> place_at(cur, i, parent, made.muts, made.m) \o rest.muts,
                   trees |-> rest.trees,
                   next |-> rest.next]

\* the first mount: everything is created, then attached under the root
\* element the renderer holds at the bottom of its stack
mount(new, next) ==
    LET made == create(new, next)
    IN  [muts |-> made.muts \o << AppendChildren(made.m) >>,
         tree |-> render(new, next).tree,
         next |-> made.next]

(* ------------------------------- state -------------------------------- *)

VARIABLES
    scopes,           \* self.scopes: ScopeId -> scope state, live scopes only
    tasks,            \* self.scheduler.tasks: TaskId -> task
    leaves,           \* self.scheduler.leaves: SuspenseId -> suspense leaf
    fiber_mutations,  \* SuspenseContext.mutations, shared by the scopes under the boundary
    scope_stack,      \* self.scope_stack
    next_id,          \* next ElementId handed out by the arena
    panicked,         \* a call has panicked
    calls,            \* the number of calls made so far
    cancelled,        \* the tasks and leaves a teardown dropped, until their id is handed out again
    lastCall,         \* what the last call was given and what it did
    recon             \* the last reconciler pass over one scope

vars == << scopes, tasks, leaves, fiber_mutations, scope_stack, next_id, panicked, calls, cancelled,
          lastCall, recon >>

Restrict(f, S) == [x \in S |-> f[x]]

Min(S) == CHOOSE x \in S : \A y \in S : x <= y

\* the arena hands out a vacant key of the table
VacantKey(ids, table) == Min(ids \ DOMAIN table)

Call(op, id, present, result, outcome, polled, emitted, placeholder, redone) ==
    [op |-> op, id |-> id, present |-> present, result |-> result, outcome |-> outcome,
     polled |-> polled, emitted |-> emitted, placeholder |-> placeholder, redone |-> redone,
     during |-> << >>, stack_ops |-> << >>, output_in_create |-> "", held |-> {}, requested |-> {}]

NoCall == Call("none", -1, FALSE, "ok", "none", {}, << >>, -1, FALSE)

RootScope == 0

\* the virtual dom is still usable, and the exploration has calls left
CanCall == ~panicked /\ calls < MaxCalls

\* one reconciler pass over a scope: the tree it started from, the template
\* it was given, the instructions it wrote and the tree it left
Pass(op, prev, new, made, passes) ==
    [op |-> op, prev |-> prev, new |-> new, muts |-> made.muts, tree |-> made.tree,
     next |-> made.next, passes |-> passes]

NoPass == Pass("none", NoTree, Keyed(VText(""), 0), [muts |-> << >>, tree |-> NoTree, next |-> 1], 0)

\* VirtualDom::new: the root scope exists and provides the SuspenseContext
Init ==
    /\ scopes = (RootScope :> [spawned_tasks |-> {}, node |-> "unset", boundary |-> TRUE])
    /\ tasks = << >>
    /\ leaves = << >>
    /\ fiber_mutations = << >>
    /\ scope_stack = << >>
    /\ next_id = 1
    /\ panicked = FALSE
    /\ calls = 0
    /\ cancelled = {}
    /\ lastCall = NoCall
    /\ recon = NoPass

(* -------------------- scopes, tasks and leaves come and go ------------ *)

\* a component is mounted: a new scope, under the suspense boundary or not
NewScope(s, boundary) ==
    /\ CanCall
    /\ calls' = calls + 1
    /\ UNCHANGED recon
    /\ ScopeIds \ DOMAIN scopes # {}
    /\ s = VacantKey(ScopeIds, scopes)
    /\ scopes' = scopes @@ (s :> [spawned_tasks |-> {}, node |-> "unset", boundary |-> boundary])
    /\ lastCall' = Call("new_scope", s, FALSE, "ok", "none", {}, << >>, -1, FALSE)
    /\ UNCHANGED << tasks, leaves, fiber_mutations, scope_stack, next_id, panicked, cancelled >>

\* a scope spawns a background task: it enters the scheduler's table and
\* the scope's spawned_tasks together
Spawn(s, t) ==
    /\ CanCall
    /\ calls' = calls + 1
    /\ UNCHANGED recon
    /\ s \in DOMAIN scopes
    /\ TaskIds \ DOMAIN tasks # {}
    /\ t = VacantKey(TaskIds, tasks)
    /\ tasks' = tasks @@ (t :> [scope |-> s])
    /\ scopes' = [scopes EXCEPT ![s].spawned_tasks = @ \cup {t}]
    /\ cancelled' = cancelled \ {<< "task", t >>}
    /\ lastCall' = Call("spawn", t, FALSE, "ok", "none", {}, << >>, -1, FALSE)
    /\ UNCHANGED << leaves, fiber_mutations, scope_stack, next_id, panicked >>

\* a render of scope s yields a pending computation: a leaf is registered
\* with a reserved placeholder, which the boundary buffers
RegisterLeaf(s, l) ==
    /\ CanCall
    /\ calls' = calls + 1
    /\ UNCHANGED recon
    /\ s \in DOMAIN scopes
    /\ SuspenseIds \ DOMAIN leaves # {}
    /\ l = VacantKey(SuspenseIds, leaves)
    /\ leaves' = leaves @@ (l :> [scope_id |-> s, placeholder |-> next_id, done |-> FALSE])
    /\ scopes' = [scopes EXCEPT ![s].node = "async"]
    /\ fiber_mutations' = IF scopes[s].boundary
                          THEN Append(fiber_mutations, CreatePlaceholder(next_id))
                          ELSE fiber_mutations
    /\ next_id' = next_id + 1
    /\ cancelled' = cancelled \ {<< "leaf", l >>}
    /\ lastCall' = Call("register", l, FALSE, "ok", "none", {}, << >>, next_id, FALSE)
    /\ UNCHANGED << tasks, scope_stack, panicked >>

\* a scope is torn down: its tasks and leaves are dropped and deregistered
Teardown(s) ==
    /\ CanCall
    /\ calls' = calls + 1
    /\ UNCHANGED recon
    /\ s \in DOMAIN scopes
    /\ s # RootScope
    /\ tasks' = Restrict(tasks, {t \in DOMAIN tasks : tasks[t].scope # s})
    /\ leaves' = Restrict(leaves, {l \in DOMAIN leaves : leaves[l].scope_id # s})
    /\ scopes' = Restrict(scopes, DOMAIN scopes \ {s})
    /\ cancelled' = cancelled \cup {<< "task", t >> : t \in {x \in DOMAIN tasks : tasks[x].scope = s}}
                              \cup {<< "leaf", l >> : l \in {x \in DOMAIN leaves : leaves[x].scope_id = s}}
    /\ lastCall' = Call("teardown", s, TRUE, "ok", "none", {}, << >>, -1, FALSE)
    /\ UNCHANGED << fiber_mutations, scope_stack, next_id, panicked >>

(* -------------------------- handle_task_wakeup ------------------------ *)

\* a full sweep: every task of the table is progressed
TasksProgressedSweep(id) == DOMAIN tasks

\* the tasks whose progress() the call runs: the notified one only
TasksProgressed(id) == {id}

\* the woken task is removed whatever progress() reports
TasksAfterWakeupAlways(id, completes) == Restrict(tasks, DOMAIN tasks \ {id})

\* the task table after the call: tasks.remove(id.0) when progress() reports completion
TasksAfterWakeup(id, completes) ==
    IF completes THEN Restrict(tasks, DOMAIN tasks \ {id}) ELSE tasks

\* the completed task is left in its scope's spawned_tasks
ScopesAfterWakeupKept(id, completes) == scopes

\* self.scopes[task.scope.0].spawned_tasks.remove(&id) when the task completes
ScopesAfterWakeup(id, completes) ==
    IF completes
    THEN [scopes EXCEPT ![tasks[id].scope].spawned_tasks = @ \ {id}]
    ELSE scopes

\* what the body of a task does while progress() polls it: only its own
\* work, or a call back into the scheduler that spawns or cancels a task
TaskBodies == {"plain", "spawns", "cancels"}

\* the RefCells the body asks to borrow mutably: spawning and cancelling
\* both write the scheduler's task table
BodyBorrows(body) == IF body = "plain" THEN {} ELSE {"tasks"}

\* the RefCells the handler has mutably borrowed while progress() runs:
\* `tasks` is borrowed on entry and released when the call returns
HeldDuringProgress == {"tasks"}

\* the RefCells the handler has mutably borrowed while create runs: the
\* boundary (`fiber`); the borrow of `leaves` ended with its statement
HeldDuringCreate == {"fiber"}

handle_task_wakeup(id) ==
    /\ CanCall
    /\ calls' = calls + 1
    /\ UNCHANGED recon
    /\ UNCHANGED cancelled
    /\ IF id \notin DOMAIN tasks
       THEN \* &tasks[id.0] on a vacant slot panics
            /\ panicked' = TRUE
            /\ lastCall' = Call("task_wakeup", id, FALSE, "panic", "none", {}, << >>, -1, FALSE)
            /\ UNCHANGED << scopes, tasks, leaves, fiber_mutations, scope_stack, next_id >>
       ELSE \E completes \in BOOLEAN, body \in TaskBodies :
            IF BodyBorrows(body) \cap HeldDuringProgress # {}
            THEN \* a second borrow_mut of a borrowed RefCell panics (BorrowMutError)
                 /\ panicked' = TRUE
                 /\ lastCall' = [Call("task_wakeup", id, TRUE, "panic", "borrow_panic",
                                      {<< "task", t >> : t \in TasksProgressed(id)}, << >>, -1, FALSE)
                                    EXCEPT !.held = HeldDuringProgress,
                                           !.requested = BodyBorrows(body)]
                 /\ UNCHANGED << scopes, tasks, leaves, fiber_mutations, scope_stack, next_id >>
            ELSE /\ tasks' = TasksAfterWakeup(id, completes)
                 /\ scopes' = ScopesAfterWakeup(id, completes)
                 /\ lastCall' = [Call("task_wakeup", id, TRUE, "ok",
                                      IF completes THEN "complete" ELSE "pending",
                                      {<< "task", t >> : t \in TasksProgressed(id)}, << >>, -1, FALSE)
                                    EXCEPT !.held = HeldDuringProgress,
                                           !.requested = BodyBorrows(body)]
                 /\ UNCHANGED << leaves, fiber_mutations, scope_stack, next_id, panicked >>

(* ------------------------ handle_suspense_wakeup ---------------------- *)

\* what poll_unpin can give: Pending, Ready(None) or Ready(Some(template));
\* a future polled again after it returned Ready may do any of these or panic
PollOutcomes(leaf) ==
    {"pending", "ready_none"} \cup {"ready_img", "ready_div"}
        \cup (IF leaf.done THEN {"poll_panic"} ELSE {})

IsReady(outcome) == outcome \in {"ready_none", "ready_img", "ready_div"}

HasTemplate(outcome) == outcome \in {"ready_img", "ready_div"}

NodesOf(outcome) ==
    CASE outcome = "ready_img" -> "img"
      [] outcome = "ready_div" -> "div"
      [] OTHER -> "none"

\* the leaves whose future the call polls: the notified one only
LeavesPolled(id) == {id}

\* the polled leaf is dropped from the table
LeavesAfterPollDropped(id, outcome) == Restrict(leaves, DOMAIN leaves \ LeavesPolled(id))

\* the leaf table after as_pinned_mut.poll_unpin(&mut cx); the leaf stays in the table
LeavesAfterPoll(id, outcome) ==
    [l \in DOMAIN leaves |->
        IF l \in LeavesPolled(id)
        THEN [leaves[l] EXCEPT !.done = @ \/ IsReady(outcome)]
        ELSE leaves[l]]

\* the frame output is set only when the resolved value carries a template
ScopesAfterReadySomeOnly(scope_id, outcome) ==
    IF HasTemplate(outcome) THEN [scopes EXCEPT ![scope_id].node = NodesOf(outcome)] ELSE scopes

\* arena.node.set(ret) with ret = RenderReturn::Sync(new_nodes)
ScopesAfterReady(scope_id, outcome) ==
    [scopes EXCEPT ![scope_id].node = NodesOf(outcome)]

\* the frame output is written before the boundary is looked up
ScopesAfterMissingBoundaryWritten(scope_id, outcome) ==
    [scopes EXCEPT ![scope_id].node = NodesOf(outcome)]

\* consume_context::<SuspenseContext>().unwrap() panics before current_frame() is touched
ScopesAfterMissingBoundary(scope_id, outcome) == scopes

\* what self.create(mutations, template) writes for the resolved nodes
Created(outcome) == create(TemplateOf(NodesOf(outcome)), next_id)

\* the created roots are appended as children although no parent was pushed
EmittedThenAppended(leaf, outcome) ==
    Created(outcome).muts \o << AppendChildren(Created(outcome).m) >>

\* the instructions the call adds to the boundary's buffer: those of create alone
Emitted(leaf, outcome) == Created(outcome).muts

\* create is handed a fresh buffer, which then replaces the boundary's
BufferOverwritten(buffer, emitted) == emitted

\* create writes into &mut fiber.mutations, after what is already there
BufferAfterCreate(buffer, emitted) == buffer \o emitted

\* self.scope_stack.push(scope_id); ...; self.scope_stack.pop()
Push(stack, s) == Append(stack, s)
\* the pop is forgotten
PopForgotten(stack) == stack

Pop(stack) == SubSeq(stack, 1, Len(stack) - 1)

Polled(id) == {<< "leaf", l >> : l \in LeavesPolled(id)}

handle_suspense_wakeup(id) ==
    /\ CanCall
    /\ calls' = calls + 1
    /\ UNCHANGED recon
    /\ UNCHANGED cancelled
    /\ IF id \notin DOMAIN leaves
       THEN \* leaves.get(id.0).unwrap() on None panics
            /\ panicked' = TRUE
            /\ lastCall' = Call("suspense_wakeup", id, FALSE, "panic", "none", {}, << >>, -1, FALSE)
            /\ UNCHANGED << scopes, tasks, leaves, fiber_mutations, scope_stack, next_id >>
       ELSE LET leaf == leaves[id] IN
            \E outcome \in PollOutcomes(leaf) :
            /\ leaves' = LeavesAfterPoll(id, outcome)
            /\ UNCHANGED tasks
            /\ CASE outcome = "poll_panic" ->
                    /\ panicked' = TRUE
                    /\ lastCall' = Call("suspense_wakeup", id, TRUE, "panic", outcome, Polled(id),
                                        << >>, leaf.placeholder, leaf.done)
                    /\ UNCHANGED << scopes, fiber_mutations, scope_stack, next_id >>
                 [] outcome = "pending" ->
                    /\ lastCall' = Call("suspense_wakeup", id, TRUE, "ok", outcome, Polled(id),
                                        << >>, leaf.placeholder, leaf.done)
                    /\ UNCHANGED << scopes, fiber_mutations, scope_stack, next_id, panicked >>
                 [] IsReady(outcome) /\ ~scopes[leaf.scope_id].boundary ->
                    \* consume_context::<SuspenseContext>().unwrap() on None panics
                    /\ panicked' = TRUE
                    /\ lastCall' = Call("suspense_wakeup", id, TRUE, "panic", outcome, Polled(id),
                                        << >>, leaf.placeholder, leaf.done)
                    /\ scopes' = ScopesAfterMissingBoundary(leaf.scope_id, outcome)
                    /\ UNCHANGED << fiber_mutations, scope_stack, next_id >>
                 [] outcome = "ready_none" /\ scopes[leaf.scope_id].boundary ->
                    /\ scopes' = ScopesAfterReady(leaf.scope_id, outcome)
                    /\ lastCall' = Call("suspense_wakeup", id, TRUE, "ok", outcome, Polled(id),
                                        << >>, leaf.placeholder, leaf.done)
                    /\ UNCHANGED << fiber_mutations, scope_stack, next_id, panicked >>
                 [] HasTemplate(outcome) /\ scopes[leaf.scope_id].boundary ->
                    /\ scopes' = ScopesAfterReady(leaf.scope_id, outcome)
                    /\ fiber_mutations' = BufferAfterCreate(fiber_mutations, Emitted(leaf, outcome))
                    /\ scope_stack' = Pop(Push(scope_stack, leaf.scope_id))
                    /\ next_id' = Created(outcome).next
                    /\ lastCall' = [Call("suspense_wakeup", id, TRUE, "ok", outcome, Polled(id),
                                         Emitted(leaf, outcome), leaf.placeholder, leaf.done)
                                       EXCEPT !.during = Push(scope_stack, leaf.scope_id),
                                              !.stack_ops = << "push", "pop" >>,
                                              !.output_in_create =
                                                  ScopesAfterReady(leaf.scope_id, outcome)[leaf.scope_id].node,
                                              !.held = HeldDuringCreate]
                    /\ UNCHANGED panicked

(* ---------------------------- specification --------------------------- *)

Next ==
    \/ \E s \in ScopeIds, b \in BOOLEAN : NewScope(s, b)
    \/ \E s \in ScopeIds, t \in TaskIds : Spawn(s, t)
    \/ \E s \in ScopeIds, l \in SuspenseIds : RegisterLeaf(s, l)
    \/ \E s \in ScopeIds : Teardown(s)
    \/ \E t \in TaskIds : handle_task_wakeup(t)
    \/ \E l \in SuspenseIds : handle_suspense_wakeup(l)

Spec == Init /\ [][Next]_vars

(* ------------------------- reconciling one scope ----------------------- *)

Texts == {"hi", "bye"}
Sources == {"x.png", "y.png"}
Keys == 1 .. MaxKeys

\* child lists in which no key occurs twice
KeyLists ==
    {ks \in UNION {[1 .. n -> Keys] : n \in 0 .. MaxKeys} :
        \A i, j \in 1 .. Len(ks) : ks[i] = ks[j] => i = j}

LeafTemplates ==
    {Keyed(VText(t), 0) : t \in Texts}
    \cup {Keyed(VElement("img", << [name |-> "src", value |-> src] >>, NoChildren), 0) : src \in Sources}
    \cup {Keyed(VElement("img", NoAttrs, NoChildren), 0)}

PassTemplates ==
    LeafTemplates
    \cup {Keyed(VElement("div", NoAttrs, << leaf >>), 0) : leaf \in LeafTemplates}
    \cup {Keyed(VElement("ul", NoAttrs,
                         [i \in 1 .. Len(ks) |-> Keyed(VElement("li", NoAttrs, NoChildren), ks[i])]), 0) :
             ks \in KeyLists}

\* the scope is rendered for the first time
Mount(new) ==
    /\ recon.op = "none"
    /\ recon' = Pass("mount", NoTree, new, mount(new, recon.next), 1)
    /\ UNCHANGED << scopes, tasks, leaves, fiber_mutations, scope_stack, next_id, panicked, calls,
                    cancelled, lastCall >>

\* the scope is rendered again and reconciled against what it rendered before
Rerender(new) ==
    /\ recon.op # "none"
    /\ recon.passes < MaxPasses
    /\ recon' = Pass("rerender", recon.tree, new, diff_node(recon.tree, new, recon.next),
                     recon.passes + 1)
    /\ UNCHANGED << scopes, tasks, leaves, fiber_mutations, scope_stack, next_id, panicked, calls,
                    cancelled, lastCall >>

NextDiff ==
    \/ \E new \in PassTemplates : Mount(new)
    \/ \E new \in PassTemplates : Rerender(new)

SpecDiff == Init /\ [][NextDiff]_vars

(* ------------------------------- claims ------------------------------- *)

IsTaskWake(call) == call.op = "task_wakeup"
IsSuspenseWake(call) == call.op = "suspense_wakeup"
IsWake(call) == IsTaskWake(call) \/ IsSuspenseWake(call)

\* the leaf resolved in this call: Ready with a template, and the call returned
Resolved(call) == IsSuspenseWake(call) /\ call.result = "ok" /\ HasTemplate(call.outcome)

IsPrefix(a, b) == Len(a) <= Len(b) /\ SubSeq(b, 1, Len(a)) = a

Front(seq) == SubSeq(seq, 1, Len(seq) - 1)
Last(seq) == seq[Len(seq)]

\* C1: a wake for a TaskId or SuspenseId that is not in the scheduler's
\* tables is ignored: the call returns normally, polls nothing, changes no
\* scheduler or scope state and emits no mutation.
C1_StaleWakeIgnored ==
    [][ (IsWake(lastCall') /\ ~lastCall'.present)
          => /\ lastCall'.result = "ok"
             /\ ~panicked'
             /\ lastCall'.polled = {}
             /\ lastCall'.emitted = << >>
             /\ UNCHANGED << scopes, tasks, leaves, fiber_mutations, scope_stack, next_id >> ]_vars

\* C2: Ready is one-shot: once handle_suspense_wakeup has polled a leaf to
\* Ready, a later wake for the same SuspenseId polls nothing and appends no
\* mutation to the boundary's buffer.
C2_ReadyIsOneShot ==
    [][ (IsSuspenseWake(lastCall') /\ lastCall'.present /\ leaves[lastCall'.id].done)
          => /\ lastCall'.polled = {}
             /\ fiber_mutations' = fiber_mutations ]_vars

\* C3: precise wakeup: a wake handled for id X polls the unit registered
\* under X and nothing else, and leaves every other task and leaf as it was.
C3_PreciseWakeup ==
    [][ /\ IsTaskWake(lastCall')
          => /\ lastCall'.polled =
                    (IF lastCall'.present THEN {<< "task", lastCall'.id >>} ELSE {})
             /\ \A t \in DOMAIN tasks \ {lastCall'.id} :
                    t \in DOMAIN tasks' /\ tasks'[t] = tasks[t]
             /\ leaves' = leaves
        /\ IsSuspenseWake(lastCall')
          => /\ lastCall'.polled =
                    (IF lastCall'.present THEN {<< "leaf", lastCall'.id >>} ELSE {})
             /\ \A l \in DOMAIN leaves \ {lastCall'.id} :
                    l \in DOMAIN leaves' /\ leaves'[l] = leaves[l]
             /\ tasks' = tasks ]_vars

\* a task was woken while another task and a leaf were registered
C3_Witness ==
    /\ IsTaskWake(lastCall) /\ lastCall.present
    /\ \E t \in DOMAIN tasks : t # lastCall.id
    /\ DOMAIN leaves # {}

\* C4: between calls a TaskId is in the scheduler's task table exactly when
\* it is in the spawned_tasks of its scope, and of no other scope.
C4_TaskOwnedByOneScope ==
    /\ \A t \in DOMAIN tasks :
          /\ tasks[t].scope \in DOMAIN scopes
          /\ \A s \in DOMAIN scopes : (t \in scopes[s].spawned_tasks) <=> (s = tasks[t].scope)
    /\ \A s \in DOMAIN scopes : scopes[s].spawned_tasks \subseteq DOMAIN tasks

\* a task completed and left both tables while another task stayed
C4_Witness ==
    /\ IsTaskWake(lastCall) /\ lastCall.outcome = "complete"
    /\ lastCall.id \notin DOMAIN tasks
    /\ DOMAIN tasks # {}

\* C5: stack balance: the instructions emitted by the pass a resolving leaf
\* runs leave the renderer's stack at the depth they found it.
C5_StackBalanced ==
    (IsSuspenseWake(lastCall) /\ lastCall.result = "ok") => StackDelta(lastCall.emitted) = 0

\* C6: the instructions emitted when a leaf resolves start with a
\* replace_with on the leaf's placeholder, and none after it names the
\* placeholder.
C6_PlaceholderReplacedFirst ==
    Resolved(lastCall)
      => /\ Len(lastCall.emitted) >= 1
         /\ lastCall.emitted[1].op = "replace_with"
         /\ lastCall.emitted[1].id = lastCall.placeholder
         /\ \A i \in 2 .. Len(lastCall.emitted) : lastCall.emitted[i].id # lastCall.placeholder

\* C7: a leaf resolving to img { src: "x.png" } emits create_element,
\* set_attribute, replace_with(placeholder, 1); every resolution ends with a
\* replace_with on the placeholder for as many nodes as were created.
C7_ResolutionScenario ==
    Resolved(lastCall)
      => /\ Len(lastCall.emitted) >= 1
         /\ Last(lastCall.emitted)
               = ReplaceWith(lastCall.placeholder, StackDelta(Front(lastCall.emitted)))
         /\ lastCall.outcome = "ready_img"
              => lastCall.emitted = << CreateElement("img", lastCall.emitted[1].id),
                                       SetAttribute("src", "x.png", lastCall.emitted[1].id),
                                       ReplaceWith(lastCall.placeholder, 1) >>

\* C8: what a resolving leaf emits is appended to the boundary's buffer:
\* the buffer before the call is a prefix of the buffer after it.
C8_ResolutionAppends ==
    [][ IsSuspenseWake(lastCall')
          => /\ IsPrefix(fiber_mutations, fiber_mutations')
             /\ fiber_mutations' = fiber_mutations \o lastCall'.emitted ]_vars

\* a leaf resolved after its boundary had buffered something
C8_Witness ==
    /\ Resolved(lastCall)
    /\ lastCall.emitted # << >>
    /\ Len(fiber_mutations) > Len(lastCall.emitted)

\* C9: what a teardown cancelled is in no scheduler table, and a wake for
\* it is ignored: the call returns normally, polls nothing and emits nothing.
C9_CancelledOnTeardown ==
    /\ \A u \in cancelled :
          /\ u[1] = "task" => u[2] \notin DOMAIN tasks
          /\ u[1] = "leaf" => u[2] \notin DOMAIN leaves
    /\ ( \/ (IsTaskWake(lastCall) /\ << "task", lastCall.id >> \in cancelled)
         \/ (IsSuspenseWake(lastCall) /\ << "leaf", lastCall.id >> \in cancelled) )
         => ( /\ lastCall.result = "ok"
              /\ lastCall.polled = {}
              /\ lastCall.emitted = << >> )

\* C10: with two leaves under one boundary, a resolution is spliced at its
\* own placeholder, leaves the other leaf registered and its placeholder
\* unnamed, and emits nothing that replaces the nodes of another resolution.
C10_IndependentResolution ==
    [][ ( /\ Resolved(lastCall')
          /\ \E o \in DOMAIN leaves \ {lastCall'.id} : scopes[leaves[o].scope_id].boundary )
          => /\ \E i \in 1 .. Len(lastCall'.emitted) :
                    /\ lastCall'.emitted[i].op = "replace_with"
                    /\ lastCall'.emitted[i].id = lastCall'.placeholder
             /\ \A o \in DOMAIN leaves \ {lastCall'.id} :
                    /\ o \in DOMAIN leaves' /\ leaves'[o] = leaves[o]
                    /\ \A i \in 1 .. Len(lastCall'.emitted) :
                           lastCall'.emitted[i].id # leaves[o].placeholder
             /\ \A i \in 1 .. Len(lastCall'.emitted) :
                    lastCall'.emitted[i].op \in {"replace_with", "insert_after", "insert_before"}
                       => lastCall'.emitted[i].id = lastCall'.placeholder ]_vars

\* C11: the renderer's stack is always valid: every emitted instruction
\* that pops k elements finds at least k on the stack, and append_children(n)
\* finds n + 1, in what one call emits and in the boundary's whole buffer.
C11_StackAlwaysValid ==
    /\ StackValid(lastCall.emitted, 0)
    /\ StackValid(fiber_mutations, 0)

\* a resolution emitted an append_children
C11_Witness ==
    /\ Resolved(lastCall)
    /\ \E i \in 1 .. Len(lastCall.emitted) : lastCall.emitted[i].op = "append_children"

\* the leaf of the call was present, polled Ready, and its scope has no boundary
ReadyWithoutBoundary(call) ==
    /\ IsSuspenseWake(call) /\ call.present /\ IsReady(call.outcome)
    /\ ~scopes[leaves[call.id].scope_id].boundary

\* C15: a leaf that polls Ready in a scope without a Suspense Boundary
\* Context makes the call fail: nothing is appended to the buffer, the
\* scope's frame output is not overwritten, the scope stack is unchanged.
C15_MissingBoundaryIsFatal ==
    [][ ReadyWithoutBoundary(lastCall')
          => /\ lastCall'.result = "panic" /\ panicked'
             /\ lastCall'.emitted = << >>
             /\ fiber_mutations' = fiber_mutations
             /\ scopes' = scopes
             /\ scope_stack' = scope_stack
             /\ lastCall'.stack_ops = << >> ]_vars

\* a leaf resolved Ready with a template in a scope that has no boundary
C15_Witness ==
    /\ IsSuspenseWake(lastCall) /\ lastCall.present /\ HasTemplate(lastCall.outcome)
    /\ lastCall.result = "panic"
    /\ lastCall.id \in DOMAIN leaves
    /\ ~scopes[leaves[lastCall.id].scope_id].boundary

\* C16: a woken leaf that polls Pending stays registered under its id, and
\* the buffer, the scopes' frame outputs, the scope stack and both scheduler
\* tables are unchanged.
C16_PendingChangesNothing ==
    [][ (IsSuspenseWake(lastCall') /\ lastCall'.outcome = "pending")
          => /\ lastCall'.result = "ok"
             /\ lastCall'.id \in DOMAIN leaves'
             /\ leaves' = leaves
             /\ tasks' = tasks
             /\ fiber_mutations' = fiber_mutations
             /\ scopes' = scopes
             /\ scope_stack' = scope_stack ]_vars

\* a leaf polled Pending while its boundary had something buffered
C16_Witness ==
    /\ IsSuspenseWake(lastCall) /\ lastCall.outcome = "pending"
    /\ lastCall.id \in DOMAIN leaves /\ ~leaves[lastCall.id].done
    /\ fiber_mutations # << >>

\* C17: handle_task_wakeup removes a task only on completion: a woken task
\* that is still pending stays in the task table and in its scope's
\* spawned_tasks, and a wake for another id leaves every task where it is.
C17_RemovedOnlyOnCompletion ==
    [][ IsWake(lastCall')
          => \A t \in DOMAIN tasks :
                ( IsSuspenseWake(lastCall') \/ t # lastCall'.id \/ lastCall'.outcome # "complete" )
                   => /\ t \in DOMAIN tasks' /\ tasks'[t] = tasks[t]
                      /\ tasks[t].scope \in DOMAIN scopes'
                      /\ t \in scopes'[tasks[t].scope].spawned_tasks ]_vars

\* a woken task was still pending and is still registered
C17_Witness ==
    /\ IsTaskWake(lastCall) /\ lastCall.outcome = "pending"
    /\ lastCall.id \in DOMAIN tasks
    /\ lastCall.id \in scopes[tasks[lastCall.id].scope].spawned_tasks

\* C18: while a call holds a table mutably borrowed nothing asks for it a
\* second time: no call ends in a conflicting borrow, whatever the polled
\* task body does.
C18_NoConflictingBorrow ==
    IsWake(lastCall)
      => /\ lastCall.held \cap lastCall.requested = {}
         /\ lastCall.outcome # "borrow_panic"

\* C19: a leaf that resolves Ready has its value bound as the frame output
\* of its scope, already when create starts to produce mutations; when the
\* value is None nothing is appended to the buffer although the frame output
\* was overwritten with the empty result.
C19_ReadyBindsFrameOutput ==
    [][ (IsSuspenseWake(lastCall') /\ IsReady(lastCall'.outcome) /\ lastCall'.result = "ok")
          => /\ scopes'[leaves[lastCall'.id].scope_id].node = NodesOf(lastCall'.outcome)
             /\ HasTemplate(lastCall'.outcome)
                  => lastCall'.output_in_create = NodesOf(lastCall'.outcome)
             /\ lastCall'.outcome = "ready_none"
                  => /\ fiber_mutations' = fiber_mutations
                     /\ lastCall'.emitted = << >>
                     /\ scopes'[leaves[lastCall'.id].scope_id].node = "none" ]_vars

\* a leaf resolved to None: the frame output is the empty result and the
\* buffer still ends with what was there before
C19_Witness ==
    /\ IsSuspenseWake(lastCall) /\ lastCall.outcome = "ready_none" /\ lastCall.result = "ok"
    /\ lastCall.id \in DOMAIN leaves
    /\ scopes[leaves[lastCall.id].scope_id].node = "none"
    /\ fiber_mutations # << >>

\* C20: handle_suspense_wakeup leaves the scope stack as it found it: with
\* a template the owning scope is on top while create runs and is popped
\* afterwards; on the other paths the scope stack is not touched.
C20_ScopeStackRestored ==
    [][ IsSuspenseWake(lastCall')
          => /\ scope_stack' = scope_stack
             /\ IF Resolved(lastCall')
                THEN /\ lastCall'.stack_ops = << "push", "pop" >>
                     /\ lastCall'.during = Append(scope_stack, leaves[lastCall'.id].scope_id)
                     /\ Last(lastCall'.during) = leaves[lastCall'.id].scope_id
                ELSE lastCall'.stack_ops = << >> ]_vars

\* a resolution ran create with its scope on top of the scope stack
C20_Witness ==
    /\ Resolved(lastCall)
    /\ lastCall.during # << >>
    /\ scope_stack = << >>


(* ------------------------ claims on the reconciler -------------------- *)

OneTextChild(node) ==
    node.kind = "element" /\ Len(node.children) = 1 /\ node.children[1].kind = "text"

IsStructural(m) == m.op # "set_attribute"

RECURSIVE SameAs(_, _)
\* the rendered tree has the kinds, tags, attributes, keys and text of the template
SameAs(tree, node) ==
    /\ tree.kind = node.kind
    /\ tree.tag = node.tag
    /\ tree.text = node.text
    /\ tree.attrs = node.attrs
    /\ tree.key = KeyOf(node)
    /\ Len(tree.children) = Len(node.children)
    /\ \A i \in 1 .. Len(node.children) : SameAs(tree.children[i], node.children[i])

RECURSIVE Replay(_, _, _)
\* what a renderer makes of a child list (of ElementIds) when it runs muts:
\* remove detaches, push_root loads onto the stack, insert_* pops n and attaches
Replay(list, stack, muts) ==
    IF muts = << >> THEN list
    ELSE LET m      == Head(muts)
             top    == SubSeq(stack, Len(stack) - m.n + 1, Len(stack))
             below  == SubSeq(stack, 1, Len(stack) - m.n)
             at     == CHOOSE i \in 1 .. Len(list) : list[i] = m.id
         IN  CASE m.op = "remove" ->
                    Replay(SelectSeq(list, LAMBDA id : id # m.id), stack, Tail(muts))
               [] m.op = "push_root" ->
                    Replay(list, stack \o << m.id >>, Tail(muts))
               [] m.op = "insert_before" ->
                    Replay(SubSeq(list, 1, at - 1) \o top \o SubSeq(list, at, Len(list)),
                           below, Tail(muts))
               [] m.op = "insert_after" ->
                    Replay(SubSeq(list, 1, at) \o top \o SubSeq(list, at + 1, Len(list)),
                           below, Tail(muts))
               [] OTHER -> Replay(list, stack, Tail(muts))

IdsOf(kids) == [i \in 1 .. Len(kids) |-> kids[i].id]
KeysOf(kids) == [i \in 1 .. Len(kids) |-> KeyOf(kids[i])]

\* the pass reconciled keyed children against the same keys in another order
IsKeyedReorder ==
    /\ recon.op = "rerender"
    /\ recon.prev.kind = "element" /\ recon.new.kind = "element"
    /\ recon.prev.tag = recon.new.tag
    /\ Len(recon.prev.children) >= 2
    /\ \A i \in 1 .. Len(recon.prev.children) : KeyOf(recon.prev.children[i]) # 0
    /\ SeqToSet(KeysOf(recon.prev.children)) = SeqToSet(KeysOf(recon.new.children))
    /\ Len(recon.prev.children) = Len(recon.new.children)
    /\ KeysOf(recon.prev.children) # KeysOf(recon.new.children)

\* C12: mounting an element with one text child from no previous tree writes
\* create_element, then create_text_node, then append_children(1), and only
\* then the attach under the parent; re-rendering it with only the text changed
\* writes exactly one instruction, set_text with the new text and the text
\* node's existing id, and the text node keeps its id.
C12_MountThenSetText ==
    /\ (recon.op = "mount" /\ OneTextChild(recon.new)) =>
           LET written == SelectSeq(recon.muts, IsStructural)
           IN  /\ Len(written) = 4
               /\ SubSeq(written, 1, 3) =
                      << CreateElement(recon.new.tag, recon.tree.id),
                         CreateTextNode(recon.new.children[1].text, recon.tree.children[1].id),
                         AppendChildren(1) >>
               /\ written[4].op = "append_children"
    /\ (/\ recon.op = "rerender"
        /\ OneTextChild(recon.prev) /\ OneTextChild(recon.new)
        /\ recon.prev.tag = recon.new.tag
        /\ recon.prev.attrs = recon.new.attrs
        /\ recon.prev.children[1].text # recon.new.children[1].text) =>
           /\ recon.muts = << SetText(recon.new.children[1].text, recon.prev.children[1].id) >>
           /\ recon.tree.children[1].id = recon.prev.children[1].id

\* div{ text("hi") } was mounted with ids 1 and 2 and re-rendered as div{ text("bye") }
C12_Witness ==
    /\ recon.op = "rerender"
    /\ recon.passes = 2
    /\ recon.prev = Rendered(VElement("div", NoAttrs, << >>), 1, << Rendered(VText("hi"), 2, << >>) >>)
    /\ recon.muts = << SetText("bye", 2) >>

\* C13: reconciling a template against a previous tree identical to it (same
\* kinds, attributes, keys and text) writes no instruction and leaves every
\* node's id as it was.
C13_IdenticalDiffIsEmpty ==
    (recon.op = "rerender" /\ SameAs(recon.prev, recon.new)) =>
        /\ recon.muts = << >>
        /\ recon.tree = recon.prev

\* an element with a text child was reconciled against itself
C13_Witness ==
    /\ recon.op = "rerender"
    /\ SameAs(recon.prev, recon.new)
    /\ OneTextChild(recon.new)

====
